---- MODULE Spec2Model ----
(***************************************************************************)
(* A model of the Forge Theory caffeine tracker (CaffeineForge) and of the *)
(* decay engine it is built on (ForgeCalculator).                          *)
(*                                                                         *)
(* Numbers.  A JavaScript number is modelled as a record                   *)
(*   [k |-> kind, v |-> value, msg |-> ""]                                 *)
(* with kind "fin" (finite, value v), "nan", "inf" or "ninf".  A call that *)
(* throws is the record of kind "throw" carrying the Error's message.      *)
(* Fractional quantities (concentrations, rates, hours) are fixed-point    *)
(* integers scaled by SCALE; doses (mg), body weights (kg) and clock       *)
(* readings (ms) are plain integers.  The volume of distribution is kept   *)
(* in tenths of a litre.                                                   *)
(***************************************************************************)
EXTENDS Integers, Sequences, FiniteSets, TLC

\* ------------------------------------------------------------------ bounds
\* Longest event log the model lets a tracker build.
MaxLog == 2
\* The wall clock and the dose times run over 0 .. MaxTick days.
MaxTick == 1
\* Longest dosing schedule the model lets optimizeDosing build.
MaxSchedule == 9
\* Longest activeForges list the model lets the App build.
MaxActive == 3

\* ------------------------------------------------ fixed-point arithmetic
SCALE == 10 ^ 4
MsPerHour == 1000 * 60 * 60
MsPerDay == 24 * MsPerHour
TickMs == MsPerDay

\* Math.LN2, scaled.
LN2 == 6931

Fin(v) == [k |-> "fin", v |-> v, msg |-> ""]
NaN == [k |-> "nan", v |-> 0, msg |-> ""]
PosInf == [k |-> "inf", v |-> 0, msg |-> ""]
NegInf == [k |-> "ninf", v |-> 0, msg |-> ""]
Throw(m) == [k |-> "throw", v |-> 0, msg |-> m]
Threw(x) == x.k = "throw"

\* x < 0, x <= y, x >= y on JavaScript numbers: every comparison with NaN is false.
IsNegative(x) == (x.k = "fin" /\ x.v < 0) \/ x.k = "ninf"
NumGe(x, y) ==
  /\ x.k # "nan" /\ y.k # "nan"
  /\ \/ x.k = "inf"
     \/ y.k = "ninf"
     \/ x.k = "fin" /\ y.k = "fin" /\ x.v >= y.v
NumLe(x, y) == NumGe(y, x)

\* The second summand alone.
KeepLast(x, y) == y

\* x + y.
NumAdd(x, y) ==
  IF x.k = "nan" \/ y.k = "nan" THEN NaN
  ELSE IF x.k = "inf" THEN (IF y.k = "ninf" THEN NaN ELSE PosInf)
  ELSE IF x.k = "ninf" THEN (IF y.k = "inf" THEN NaN ELSE NegInf)
  ELSE IF y.k = "fin" THEN Fin(x.v + y.v)
  ELSE y

\* floor(a * b / SCALE) for a >= 0 and 0 <= b, without leaving 32 bits.
MulFix(a, b) == (a \div SCALE) * b + ((a % SCALE) * b) \div SCALE

\* floor(a * SCALE / b) for a >= 0 and b > 0, by long division.
RECURSIVE DivDigits(_, _, _)
DivDigits(r, b, n) ==
  IF n = 0 THEN 0
  ELSE ((r * 10) \div b) * (10 ^ (n - 1)) + DivDigits((r * 10) % b, b, n - 1)
DivFix(a, b) == (a \div b) * SCALE + DivDigits(a % b, b, 4)

\* e^r for 0 <= r < ln 2, by its power series.
RECURSIVE ExpTerm(_, _)
ExpTerm(r, n) == IF n = 0 THEN SCALE ELSE (ExpTerm(r, n - 1) * r) \div (n * SCALE)
ExpSeries(r) ==
  ExpTerm(r, 0) + ExpTerm(r, 1) + ExpTerm(r, 2) + ExpTerm(r, 3) + ExpTerm(r, 4)
    + ExpTerm(r, 5) + ExpTerm(r, 6) + ExpTerm(r, 7) + ExpTerm(r, 8)

\* Math.exp(-x) for x >= 0: e^-x = 2^-n / e^r with x = n ln 2 + r.
MathExpNeg(x) ==
  LET n == x \div LN2
      r == x % LN2
  IN  IF n >= 14 THEN 0 ELSE (SCALE * SCALE) \div (ExpSeries(r) * (2 ^ n))

\* Math.log(y) for y >= 1: ln y = n ln 2 + 2 atanh((m - 1) / (m + 1)), y = 2^n m.
RECURSIVE Halvings(_)
Halvings(y) == IF y < 2 * SCALE THEN 0 ELSE 1 + Halvings(y \div 2)
MathLog(y) ==
  LET n == Halvings(y)
      m == y \div (2 ^ n)
      z == ((m - SCALE) * SCALE) \div (m + SCALE)
      z2 == (z * z) \div SCALE
      z3 == (z * z2) \div SCALE
      z5 == (z3 * z2) \div SCALE
      z7 == (z5 * z2) \div SCALE
      z9 == (z7 * z2) \div SCALE
  IN  n * LN2 + 2 * (z + z3 \div 3 + z5 \div 5 + z7 \div 7 + z9 \div 9)

\* -------------------------------------------------------- ForgeCalculator
\* Growth where the code decays: initial * (1 + rate * time).
GrowthProduct(initial, rate, time) ==
  IF initial.k = "fin" THEN Fin(initial.v + MulFix(initial.v, MulFix(time, rate)))
  ELSE initial

\* initial * Math.exp(-rate * time) on an accepted initial value.  Math.exp
\* is positive, so an infinite initial value stays infinite.
DecayProduct(initial, rate, time) ==
  IF initial.k = "fin" THEN Fin(MulFix(initial.v, MathExpNeg(MulFix(time, rate))))
  ELSE initial

\* calculate refusing an initial value of zero as well.
CalculatePositiveOnly(initial, rate, time) ==
  IF IsNegative(initial) \/ initial = Fin(0) THEN Throw("Initial value cannot be negative")
  ELSE IF rate < 0 THEN Throw("Rate constant cannot be negative")
  ELSE IF time < 0 THEN Throw("Time cannot be negative")
  ELSE DecayProduct(initial, rate, time)

\* static calculate(initial, rate, time); rate and time are finite here.
Calculate(initial, rate, time) ==
  IF IsNegative(initial) THEN Throw("Initial value cannot be negative")
  ELSE IF rate < 0 THEN Throw("Rate constant cannot be negative")
  ELSE IF time < 0 THEN Throw("Time cannot be negative")
  ELSE DecayProduct(initial, rate, time)

\* Math.log(initial / target) / rate for initial > target > 0 and rate > 0.
LogQuotient(initial, target, rate) ==
  IF initial.k = "fin" THEN Fin(DivFix(MathLog(DivFix(initial.v, target)), rate))
  ELSE initial

\* timeToReach with the rate tested before the target.
TimeToReachRateFirst(initial, target, rate) ==
  IF rate <= 0 THEN Throw("Rate constant must be positive")
  ELSE IF NumGe(Fin(target), initial) THEN Fin(0)
  ELSE IF target <= 0 THEN PosInf
  ELSE LogQuotient(initial, target, rate)

\* static timeToReach(initial, target, rate); target and rate are finite here.
TimeToReach(initial, target, rate) ==
  IF NumGe(Fin(target), initial) THEN Fin(0)
  ELSE IF target <= 0 THEN PosInf
  ELSE IF rate <= 0 THEN Throw("Rate constant must be positive")
  ELSE LogQuotient(initial, target, rate)

\* static rateToHalfLife(rate)
RateToHalfLife(rate) ==
  IF rate <= 0 THEN Throw("Rate constant must be positive")
  ELSE Fin(DivFix(LN2, rate))

\* (value / initial) * 100 on a value calculate returned for initial.
CurvePercent(value, initial) ==
  IF value.k = "fin" /\ initial.k = "fin" /\ initial.v > 0
    THEN Fin(DivFix(value.v, initial.v) * 100)
  ELSE NaN

\* What the first pass of the loop of generateCurve throws, if it throws: the
\* error of calculate or, after it, of rateToHalfLife.  The later passes
\* throw only what the first one does.
CurveError(initial, rate) ==
  IF Threw(Calculate(initial, rate, 0)) THEN Calculate(initial, rate, 0)
  ELSE RateToHalfLife(rate)

\* One pass of the loop of generateCurve that does not throw: the point
\* {time, value, percent, halfLives}.
CurveStep(initial, rate, time) ==
  LET value == Calculate(initial, rate, time)
  IN  [time |-> time, value |-> value, percent |-> CurvePercent(value, initial),
       halfLives |-> Fin(DivFix(time, RateToHalfLife(rate).v))]

\* static generateCurve(initial, rate, duration, steps) for duration >= 0 and
\* steps >= 1: the array of the points i = 0 .. steps, or the error thrown.
GenerateCurve(initial, rate, duration, steps) ==
  LET dt == (duration * SCALE) \div steps
  IN  IF Threw(CurveError(initial, rate)) THEN CurveError(initial, rate)
      ELSE [points |-> [i \in 1 .. steps + 1 |-> CurveStep(initial, rate, (i - 1) * dt)]]

\* ----------------------------------------------------------- CaffeineForge
Forges == {"A", "B"}

\* this.CONSTANTS
HALF_LIFE_TYPICAL == 5
HALF_LIFE_MIN == 2
HALF_LIFE_MAX == 10
RATE_TYPICAL == 1386
RATE_FAST == 3466
RATE_SLOW == 693
\* VD_PER_KG (0.6), in tenths.
VD_PER_KG == 6
\* Sensitivity thresholds.
THRESHOLD_ALERT == 50
THRESHOLD_JITTERY == 150
THRESHOLD_SLEEP == 10
THRESHOLD_BASELINE == 1
SOURCES ==
  [espresso |-> 64, coffee |-> 95, tea_black |-> 47, tea_green |-> 28,
   energy_drink |-> 80, cola |-> 34, dark_chocolate |-> 12]

\* The heap holds at most one state object per forge and one kept alive by an
\* exported blob, and one more while importState builds its copy.
ObjIds == 1 .. (Cardinality(Forges) + 2)

VARIABLES
  clock,     \* Date.now(), in ms
  forge,     \* forge[f]: [state |-> id of this.state, volumeDistribution |-> tenths of L]
  states,    \* the state objects on the heap, by id
  arrays,    \* the caffeineHistory arrays on the heap, by id
  saved,     \* the blob exportState last returned: [version, state |-> id], or NoBlob
  ret,       \* the last call: [op, forge, args, result]
  cachedAt,  \* cachedAt[id]: the query time state.currentLevel was computed for
  opt,       \* the optimizeDosing call in progress, if any
  activeDomain,  \* App: the domain shown, or NoDomain for the selector
  activeForges   \* App: the forges handed to the dashboard, in order

vars == <<clock, forge, states, arrays, saved, ret, cachedAt, opt, activeDomain, activeForges>>

NoBlob == [version |-> "", state |-> 0, timestamp |-> 0]

\* useState<string | null>(null)
NoDomain == "null"
NoTime == 0 - 1

State(f) == states[forge[f].state]
History(f) == arrays[State(f).caffeineHistory]

\* The smallest id the heap h does not hold.
NewId(h) == CHOOSE i \in ObjIds \ DOMAIN h : \A j \in ObjIds \ DOMAIN h : i <= j

\* Object.assign(target, source) / { ...target, ...source } on the modelled keys.
Assign(target, source) ==
  [key \in DOMAIN target |-> IF key \in DOMAIN source THEN source[key] ELSE target[key]]

\* updateRateConstant(): the state with rateConstant and halfLife set.
UpdateRateConstant(st) ==
  IF st.metabolismRate = "fast"
    THEN [st EXCEPT !.rateConstant = RATE_FAST, !.halfLife = HALF_LIFE_MIN]
  ELSE IF st.metabolismRate = "slow"
    THEN [st EXCEPT !.rateConstant = RATE_SLOW, !.halfLife = HALF_LIFE_MAX]
  ELSE [st EXCEPT !.rateConstant = RATE_TYPICAL, !.halfLife = HALF_LIFE_TYPICAL]

\* this.state.bodyWeight * this.CONSTANTS.VD_PER_KG
VolumeOf(bodyWeight) == bodyWeight * VD_PER_KG

\* Object identity is all a program can tell of a reference, so the heap is
\* kept up to renaming: the objects are numbered in the order in which forge
\* A, forge B and the exported blob reach them, and what none of them reaches
\* is dropped.
ForgeOrder == <<"A", "B">>
\* The number of x among the two or three references refs, and the reference
\* numbered n.
Rank(refs, x) ==
  IF x = refs[1] THEN 1
  ELSE IF x = refs[2] \/ refs[2] = refs[1] THEN 2
  ELSE 3
Ranked(refs, n) ==
  IF n = 1 THEN refs[1]
  ELSE IF n = 2 /\ refs[2] # refs[1] THEN refs[2]
  ELSE refs[Len(refs)]
Renumbered(h, refs) ==
  [n \in {Rank(refs, refs[i]) : i \in 1 .. Len(refs)} |-> h[Ranked(refs, n)]]

\* One step of the program: the heap after it and the call it made.
Commit(fg, st, ar, sv, at, r) ==
  LET stateRefs == [i \in 1 .. Len(ForgeOrder) |-> fg[ForgeOrder[i]].state]
                     \o (IF sv.state = 0 THEN <<>> ELSE <<sv.state>>)
      arrayRefs == [i \in 1 .. Len(stateRefs) |-> st[stateRefs[i]].caffeineHistory]
      blob(b) == IF b.state = 0 THEN b ELSE [b EXCEPT !.state = Rank(stateRefs, @)]
      kept == Renumbered(st, stateRefs)
  IN  /\ forge' = [f \in Forges |-> [fg[f] EXCEPT !.state = Rank(stateRefs, @)]]
      /\ states' = [n \in DOMAIN kept |->
                      [kept[n] EXCEPT !.caffeineHistory = Rank(arrayRefs, @)]]
      /\ arrays' = Renumbered(ar, arrayRefs)
      /\ saved' = blob(sv)
      /\ cachedAt' = Renumbered(at, stateRefs)
      /\ ret' = IF r.op = "exportState" THEN [r EXCEPT !.result = blob(@)] ELSE r

Call(op, f, args, result) == [op |-> op, forge |-> f, args |-> args, result |-> result]

\* constructor(userConfig): the state object and the volume of distribution.
DefaultState(history) ==
  [bodyWeight |-> 70, metabolismRate |-> "typical", caffeineHistory |-> history,
   currentLevel |-> Fin(0), rateConstant |-> 0, halfLife |-> 0]
Constructor(userConfig, history) == UpdateRateConstant(Assign(DefaultState(history), userConfig))

\* new Date(time) for a time given in whole ms: the same instant.
ToDate(time) == time

\* (now - event.time) / (1000 * 60 * 60), scaled.
HoursElapsed(now, time) ==
  ((now - time) \div MsPerHour) * SCALE + ((now - time) % MsPerHour) \div (MsPerHour \div SCALE)

\* event.dose / this.volumeDistribution (dose in mg, volume in tenths of L).
Concentration(dose, volume) ==
  IF dose.k # "fin" THEN dose
  ELSE IF volume = 0
    THEN (IF dose.v > 0 THEN PosInf ELSE IF dose.v < 0 THEN NegInf ELSE NaN)
  ELSE IF dose.v >= 0 THEN Fin(DivFix(dose.v * 10, volume))
  ELSE Fin(0 - DivFix((0 - dose.v) * 10, volume))

\* hoursElapsed >= 0: only doses from the past count.
IsPastStrict(hoursElapsed) == hoursElapsed > 0
IsPast(hoursElapsed) == hoursElapsed >= 0

\* getBloodLevel(dose, hoursElapsed)
GetBloodLevel(f, dose, hoursElapsed) ==
  Calculate(Concentration(dose, forge[f].volumeDistribution), State(f).rateConstant, hoursElapsed)

\* The loop of getCurrentLevel from event i on, totalLevel so far being total.
RECURSIVE LevelLoop(_, _, _, _, _, _)
LevelLoop(history, i, now, volume, rate, total) ==
  IF i > Len(history) THEN total
  ELSE LET hoursElapsed == HoursElapsed(now, history[i].time)
       IN  IF IsPast(hoursElapsed)
             THEN LET remaining == Calculate(Concentration(history[i].dose, volume), rate, hoursElapsed)
                  IN  IF Threw(remaining) THEN remaining
                      ELSE LevelLoop(history, i + 1, now, volume, rate, NumAdd(total, remaining))
             ELSE LevelLoop(history, i + 1, now, volume, rate, total)

\* What getCurrentLevel(currentTime) returns, or the error it throws.
CurrentLevelDrift(f, currentTime) ==
  NumAdd(State(f).currentLevel,
         LevelLoop(History(f), 1, ToDate(currentTime), forge[f].volumeDistribution,
                   State(f).rateConstant, Fin(0)))
CurrentLevel(f, currentTime) ==
  LevelLoop(History(f), 1, ToDate(currentTime), forge[f].volumeDistribution,
            State(f).rateConstant, Fin(0))

\* ------------------------------------------------------------- operations
\* this.state.caffeineHistory.push(event)
PushFirst(history, event) == <<event>> \o history
Push(history, event) == Append(history, event)

\* addDose(dose, time, source)
AddDose(f, dose, time, source) ==
  /\ Len(History(f)) < MaxLog
  /\ LET event == [dose |-> dose, time |-> ToDate(time), source |-> source, timestamp |-> clock]
         h == State(f).caffeineHistory
     IN  Commit(forge, states, [arrays EXCEPT ![h] = Push(@, event)], saved, cachedAt,
                Call("addDose", f, [dose |-> dose, time |-> time, source |-> source], event))
  /\ UNCHANGED <<clock, opt, activeDomain, activeForges>>

\* getCurrentLevel(currentTime)
GetCurrentLevel(f, currentTime) ==
  /\ LET totalLevel == CurrentLevel(f, currentTime)
         s == forge[f].state
         r == Call("getCurrentLevel", f, [currentTime |-> currentTime], totalLevel)
     IN  IF Threw(totalLevel)
           THEN Commit(forge, states, arrays, saved, cachedAt, r)
           ELSE Commit(forge, [states EXCEPT ![s].currentLevel = totalLevel], arrays, saved,
                       [cachedAt EXCEPT ![s] = currentTime], r)
  /\ UNCHANGED <<clock, opt, activeDomain, activeForges>>

\* SOURCES[source]: an own property, a property every object inherits from
\* Object.prototype, or undefined.
ObjectPrototype ==
  {"constructor", "toString", "toLocaleString", "valueOf", "hasOwnProperty",
   "isPrototypeOf", "propertyIsEnumerable", "__proto__"}
Lookup(source) ==
  IF source \in DOMAIN SOURCES THEN [type |-> "number", n |-> SOURCES[source]]
  ELSE IF source \in ObjectPrototype THEN [type |-> "object", n |-> 0]
  ELSE [type |-> "undefined", n |-> 0]

\* !dosePerServing
NoDose(dosePerServing) ==
  dosePerServing.type = "undefined" \/ (dosePerServing.type = "number" /\ dosePerServing.n = 0)

\* The dose of one serving, whatever the number of servings.
OneServing(dosePerServing, servings) ==
  IF dosePerServing.type = "number" THEN Fin(dosePerServing.n) ELSE NaN

\* dosePerServing * servings
TotalDose(dosePerServing, servings) ==
  IF dosePerServing.type = "number" THEN Fin(dosePerServing.n * servings) ELSE NaN

\* addBySource(source, servings, time)
AddBySource(f, source, servings, time) ==
  LET dosePerServing == Lookup(source)
      args == [source |-> source, servings |-> servings, time |-> time]
  IN  IF NoDose(dosePerServing)
        THEN /\ Commit(forge, states, arrays, saved, cachedAt,
                       Call("addBySource", f, args, Throw("Unknown caffeine source")))
             /\ UNCHANGED <<clock, opt, activeDomain, activeForges>>
        ELSE /\ Len(History(f)) < MaxLog
             /\ LET event == [dose |-> TotalDose(dosePerServing, servings), time |-> ToDate(time),
                              source |-> source, timestamp |-> clock]
                    h == State(f).caffeineHistory
                IN  Commit(forge, states, [arrays EXCEPT ![h] = Push(@, event)], saved,
                           cachedAt, Call("addBySource", f, args, event))
             /\ UNCHANGED <<clock, opt, activeDomain, activeForges>>

\* new Date().setHours(0, 0, 0, 0): local midnight, the local zone being UTC.
Midnight(now) == now - (now % MsPerDay)

\* event.time >= today
CountsToday(time, today) == time >= today

\* breakdown[source] || 0
OrZero(breakdown, source) ==
  IF source \in DOMAIN breakdown /\ breakdown[source].k # "nan" /\ breakdown[source] # Fin(0)
    THEN breakdown[source]
  ELSE Fin(0)

\* The loop of getTodayTotal from event i on: [total, breakdown].
RECURSIVE TodayLoop(_, _, _, _)
TodayLoop(history, i, today, acc) ==
  IF i > Len(history) THEN acc
  ELSE LET event == history[i]
       IN  IF CountsToday(event.time, today)
             THEN TodayLoop(history, i + 1, today,
                    [total |-> NumAdd(acc.total, event.dose),
                     breakdown |-> [src \in DOMAIN acc.breakdown \cup {event.source} |->
                        IF src = event.source THEN NumAdd(OrZero(acc.breakdown, src), event.dose)
                        ELSE acc.breakdown[src]]])
             ELSE TodayLoop(history, i + 1, today, acc)

NumLtInt(x, n) == x.k = "ninf" \/ (x.k = "fin" /\ x.v < n)
NumGtInt(x, n) == x.k = "inf" \/ (x.k = "fin" /\ x.v > n)

\* What getTodayTotal() returns.
TodayTotal(f) ==
  LET sum == TodayLoop(History(f), 1, Midnight(clock),
                       [total |-> Fin(0), breakdown |-> [src \in {} |-> Fin(0)]])
  IN  [total |-> sum.total, breakdown |-> sum.breakdown,
       safe |-> NumLtInt(sum.total, 400), excessive |-> NumGtInt(sum.total, 600)]

\* getTodayTotal()
GetTodayTotal(f) ==
  /\ Commit(forge, states, arrays, saved, cachedAt,
            Call("getTodayTotal", f, [now |-> clock], TodayTotal(f)))
  /\ UNCHANGED <<clock, opt, activeDomain, activeForges>>

\* this.state.caffeineHistory = []; this.state.currentLevel = 0, the new
\* array being h.
ClearedLogOnly(st, h) == [st EXCEPT !.caffeineHistory = h]
Cleared(st, h) == [st EXCEPT !.caffeineHistory = h, !.currentLevel = Fin(0)]

\* clearHistory()
ClearHistory(f) ==
  /\ LET s == forge[f].state
         h == NewId(arrays)
     IN  Commit(forge, [states EXCEPT ![s] = Cleared(@, h)],
                (h :> <<>>) @@ arrays, saved, [cachedAt EXCEPT ![s] = NoTime],
                Call("clearHistory", f, <<>>, Fin(0)))
  /\ UNCHANGED <<clock, opt, activeDomain, activeForges>>

\* if (config.bodyWeight): the key is present and its number is not 0.
HasBodyWeight(config) == "bodyWeight" \in DOMAIN config /\ config.bodyWeight # 0

\* if (config.metabolismRate): the key is present and its string is not empty.
HasMetabolismRate(config) == "metabolismRate" \in DOMAIN config /\ config.metabolismRate # ""

\* updateConfig(config)
UpdateConfig(f, config) ==
  /\ LET s == forge[f].state
         assigned == Assign(states[s], config)
         st == IF HasMetabolismRate(config) THEN UpdateRateConstant(assigned) ELSE assigned
         volume == IF HasBodyWeight(config) THEN VolumeOf(config.bodyWeight)
                   ELSE forge[f].volumeDistribution
     IN  Commit([forge EXCEPT ![f].volumeDistribution = volume], [states EXCEPT ![s] = st],
                arrays, saved, cachedAt, Call("updateConfig", f, config, Fin(0)))
  /\ UNCHANGED <<clock, opt, activeDomain, activeForges>>

\* exportState(): the blob holds this.state itself.
ExportState(f) ==
  /\ LET blob == [version |-> "1.0", state |-> forge[f].state, timestamp |-> clock]
     IN  Commit(forge, states, arrays, blob, cachedAt, Call("exportState", f, <<>>, blob))
  /\ UNCHANGED <<clock, opt, activeDomain, activeForges>>

\* savedState.version === '1.0'
RecognizedAny(version) == TRUE
Recognized(version) == version = "1.0"

\* importState(savedState), savedState being a blob exportState returned.
ImportState(f, savedState) ==
  /\ savedState.state \in DOMAIN states
  /\ LET r == Call("importState", f, savedState, Fin(0))
         n == NewId(states)
         st == UpdateRateConstant(Assign(State(f), states[savedState.state]))
     IN  IF Recognized(savedState.version)
           THEN Commit([forge EXCEPT ![f] = [state |-> n, volumeDistribution |-> VolumeOf(st.bodyWeight)]],
                       (n :> st) @@ states, arrays, saved,
                       (n :> cachedAt[savedState.state]) @@ cachedAt, r)
           ELSE Commit(forge, states, arrays, saved, cachedAt, r)
  /\ UNCHANGED <<clock, opt, activeDomain, activeForges>>

\* The larger of the two where Math.min gives the smaller.
Larger(a, b) == IF a <= b THEN b ELSE a

\* Math.min on scaled finite numbers.
Min(a, b) == IF a <= b THEN a ELSE b

\* An argument left out or passed as null.
Null == [k |-> "null", v |-> 0, msg |-> ""]

\* x || fallback on a number or null: null, 0 and NaN are falsy.
Falsy(x) == x.k \in {"null", "nan"} \/ x = Fin(0)
OrDefault(x, fallback) == IF Falsy(x) THEN Fin(fallback * SCALE) ELSE x

\* level >= this.CONSTANTS.THRESHOLD_...: a level against a threshold.
AtLeastStrict(level, threshold) ==
  NumGe(level, Fin(threshold * SCALE)) /\ level # Fin(threshold * SCALE)
AtLeast(level, threshold) == NumGe(level, Fin(threshold * SCALE))

\* The if / else-if chain of getPhysiologicalState: state and description.
PhysiologicalBandFromZero(level) ==
  IF AtLeast(level, THRESHOLD_JITTERY)
    THEN [state |-> "jittery",
          description |-> "High caffeine - anxiety, jitters, rapid heartbeat likely"]
  ELSE IF AtLeast(level, THRESHOLD_ALERT)
    THEN [state |-> "alert",
          description |-> "Moderate caffeine - increased alertness and focus"]
  ELSE IF AtLeast(level, THRESHOLD_SLEEP)
    THEN [state |-> "mild",
          description |-> "Low caffeine - mild stimulation, may affect sleep"]
  ELSE IF AtLeast(level, 0)
    THEN [state |-> "minimal", description |-> "Trace caffeine - negligible effects"]
  ELSE [state |-> "baseline", description |-> "No significant caffeine effects"]
PhysiologicalBand(level) ==
  IF AtLeast(level, THRESHOLD_JITTERY)
    THEN [state |-> "jittery",
          description |-> "High caffeine - anxiety, jitters, rapid heartbeat likely"]
  ELSE IF AtLeast(level, THRESHOLD_ALERT)
    THEN [state |-> "alert",
          description |-> "Moderate caffeine - increased alertness and focus"]
  ELSE IF AtLeast(level, THRESHOLD_SLEEP)
    THEN [state |-> "mild",
          description |-> "Low caffeine - mild stimulation, may affect sleep"]
  ELSE IF AtLeast(level, THRESHOLD_BASELINE)
    THEN [state |-> "minimal", description |-> "Trace caffeine - negligible effects"]
  ELSE [state |-> "baseline", description |-> "No significant caffeine effects"]

\* getPercentOfPeak(currentLevel): Math.min(100, currentLevel / typicalPeak * 100)
\* with typicalPeak = 200 / this.volumeDistribution, on a level that is not
\* negative.
PercentOfPeak(f, currentLevel) ==
  LET volume == forge[f].volumeDistribution
  IN  IF currentLevel.k = "nan" THEN NaN
      ELSE IF volume = 0 THEN (IF currentLevel.k = "fin" THEN Fin(0) ELSE NaN)
      ELSE IF currentLevel.k = "fin"
        THEN Fin(Min(100 * SCALE,
                     (currentLevel.v \div 20) * volume + ((currentLevel.v % 20) * volume) \div 20))
      ELSE Fin(100 * SCALE)

\* What getPhysiologicalState(time) returns, or the error it throws.
PhysiologicalState(f, time) ==
  LET level == CurrentLevel(f, time)
      band == PhysiologicalBand(level)
  IN  IF Threw(level) THEN level
      ELSE [level |-> level, state |-> band.state, description |-> band.description,
            percentOfPeak |-> PercentOfPeak(f, level)]

\* getPhysiologicalState(time): getCurrentLevel caches the level on the way.
GetPhysiologicalState(f, time) ==
  /\ LET level == CurrentLevel(f, time)
         s == forge[f].state
         r == Call("getPhysiologicalState", f, [time |-> time], PhysiologicalState(f, time))
     IN  IF Threw(level)
           THEN Commit(forge, states, arrays, saved, cachedAt, r)
           ELSE Commit(forge, [states EXCEPT ![s].currentLevel = level], arrays, saved,
                       [cachedAt EXCEPT ![s] = time], r)
  /\ UNCHANGED <<clock, opt, activeDomain, activeForges>>

\* new Date(fromTime.getTime() + hours * 60 * 60 * 1000): an invalid Date
\* when hours is not finite.
DatePlusHours(fromTime, hours) ==
  IF hours.k = "fin" THEN Fin(fromTime + hours.v * (MsPerHour \div SCALE)) ELSE NaN

\* What getTimeUntilSleep(sleepThreshold, fromTime) returns, or the error it
\* throws; sleepThreshold is null or a number >= 0.
TimeUntilSleep(f, sleepThreshold, fromTime) ==
  LET threshold == OrDefault(sleepThreshold, THRESHOLD_SLEEP)
      currentLevel == CurrentLevel(f, fromTime)
      hours == TimeToReach(currentLevel, threshold.v, State(f).rateConstant)
  IN  IF Threw(currentLevel) THEN currentLevel
      ELSE IF NumLe(currentLevel, threshold)
        THEN [hours |-> Fin(0), sleepTime |-> Fin(fromTime), canSleepNow |-> TRUE,
              currentLevel |-> currentLevel]
      ELSE IF Threw(hours) THEN hours
      ELSE [hours |-> hours, sleepTime |-> DatePlusHours(fromTime, hours),
            canSleepNow |-> FALSE, currentLevel |-> currentLevel]

\* getTimeUntilSleep(sleepThreshold, fromTime): getCurrentLevel caches the
\* level on the way.
GetTimeUntilSleep(f, sleepThreshold, fromTime) ==
  /\ LET level == CurrentLevel(f, fromTime)
         s == forge[f].state
         r == Call("getTimeUntilSleep", f,
                   [sleepThreshold |-> sleepThreshold, fromTime |-> fromTime],
                   TimeUntilSleep(f, sleepThreshold, fromTime))
     IN  IF Threw(level)
           THEN Commit(forge, states, arrays, saved, cachedAt, r)
           ELSE Commit(forge, [states EXCEPT ![s].currentLevel = level], arrays, saved,
                       [cachedAt EXCEPT ![s] = fromTime], r)
  /\ UNCHANGED <<clock, opt, activeDomain, activeForges>>

\* getStateFromLevel(totalLevel)
GetStateFromLevel(totalLevel) ==
  IF AtLeast(totalLevel, THRESHOLD_JITTERY) THEN "jittery"
  ELSE IF AtLeast(totalLevel, THRESHOLD_ALERT) THEN "alert"
  ELSE IF AtLeast(totalLevel, THRESHOLD_SLEEP) THEN "mild"
  ELSE IF AtLeast(totalLevel, THRESHOLD_BASELINE) THEN "minimal"
  ELSE "baseline"

\* level * this.volumeDistribution (volume in tenths of L).
TimesVolume(level, volume) ==
  IF level.k = "fin" THEN Fin((level.v * volume) \div 10)
  ELSE IF level.k = "nan" \/ volume = 0 THEN NaN
  ELSE level

\* (level / initialLevel) * 100 for an initialLevel > 0.
PercentOf(level, initialLevel) ==
  IF level.k = "fin" /\ initialLevel.k = "fin" THEN Fin(DivFix(level.v, initialLevel.v) * 100)
  ELSE IF level.k = "fin" THEN Fin(0)
  ELSE NaN

\* One point of generateDecayCurve: {time, level, percent, state}.
CurvePoint(f, initialLevel, time) ==
  LET level == Calculate(initialLevel, State(f).rateConstant, time)
  IN  [time |-> time, level |-> level, percent |-> PercentOf(level, initialLevel),
       state |-> GetStateFromLevel(TimesVolume(level, forge[f].volumeDistribution))]

\* generateDecayCurve(dose, duration, steps) for a dose > 0 in mg, so that
\* dose || ... is dose: the array of the points i = 0 .. steps at time
\* i * duration / steps.
DecayCurve(f, dose, duration, steps) ==
  LET initialLevel == Concentration(Fin(dose), forge[f].volumeDistribution)
      dt == (duration * SCALE) \div steps
  IN  [points |-> [i \in 1 .. steps + 1 |-> CurvePoint(f, initialLevel, (i - 1) * dt)]]

GenerateDecayCurve(f, dose, duration, steps) ==
  /\ Commit(forge, states, arrays, saved, cachedAt,
            Call("generateDecayCurve", f,
                 [dose |-> dose, duration |-> duration, steps |-> steps],
                 DecayCurve(f, dose, duration, steps)))
  /\ UNCHANGED <<clock, opt, activeDomain, activeForges>>

\* The loop of generateTimeline from step i on: each step calls
\* getCurrentLevel(time), which caches the level, and
\* getPhysiologicalState(time); an error leaves the loop with the cache as the
\* last completed step wrote it.
RECURSIVE TimelineLoop(_, _, _, _, _, _, _, _)
TimelineLoop(f, start, resolution, i, steps, currentLevel, at, timeline) ==
  IF i > steps
    THEN [result |-> [points |-> timeline], currentLevel |-> currentLevel, at |-> at]
  ELSE LET time == start + i * resolution * 60 * 1000
           level == CurrentLevel(f, time)
           state == PhysiologicalState(f, time)
       IN  IF Threw(level)
             THEN [result |-> level, currentLevel |-> currentLevel, at |-> at]
             ELSE TimelineLoop(f, start, resolution, i + 1, steps, level, time,
                    Append(timeline,
                           [time |-> time, level |-> state.level, state |-> state.state,
                            description |-> state.description,
                            percentOfPeak |-> state.percentOfPeak]))

\* What generateTimeline(startTime, hours, resolution) returns or throws, and
\* the cache it leaves. startTime is a Date (its time value in v), which is
\* truthy, or null: for null, start is the number that setHours returns, and
\* start.getTime is not a function.
Timeline(f, startTime, hours, resolution) ==
  IF startTime = Null
    THEN [result |-> Throw("start.getTime is not a function"),
          currentLevel |-> State(f).currentLevel, at |-> cachedAt[forge[f].state]]
    ELSE TimelineLoop(f, startTime.v, resolution, 0, (hours * 60) \div resolution,
                      State(f).currentLevel, cachedAt[forge[f].state], <<>>)

GenerateTimeline(f, startTime, hours, resolution) ==
  /\ LET run == Timeline(f, startTime, hours, resolution)
         s == forge[f].state
     IN  Commit(forge, [states EXCEPT ![s].currentLevel = run.currentLevel], arrays, saved,
                [cachedAt EXCEPT ![s] = run.at],
                Call("generateTimeline", f,
                     [startTime |-> startTime, hours |-> hours, resolution |-> resolution],
                     run.result))
  /\ UNCHANGED <<clock, opt, activeDomain, activeForges>>

\* initialDose / this.volumeDistribution (dose scaled, volume in tenths of L).
DoseConcentration(dose, volume) ==
  IF volume = 0 THEN (IF dose > 0 THEN PosInf ELSE NaN)
  ELSE Fin((dose * 10) \div volume)

NotRunning == [pc |-> "idle"]

\* optimizeDosing(targetLevel, duration, maxDose) up to its loop: the first
\* schedule entry and the redosing interval.
OptimizeDosing(f, targetLevel, duration, maxDose) ==
  /\ opt.pc = "idle"
  /\ LET targetConcentration == targetLevel * SCALE
         volume == forge[f].volumeDistribution
         initialDose == Min((targetConcentration * volume) \div 10, maxDose * SCALE)
         redoseThreshold == (targetConcentration * 7) \div 10
         initialConc == DoseConcentration(initialDose, volume)
         redoseInterval == TimeToReach(initialConc, redoseThreshold, State(f).rateConstant)
         args == [targetLevel |-> targetLevel, duration |-> duration, maxDose |-> maxDose]
     IN  IF Threw(redoseInterval)
           THEN /\ opt' = opt
                /\ ret' = Call("optimizeDosing", f, args, redoseInterval)
           ELSE /\ opt' = [pc |-> "loop", forge |-> f, args |-> args,
                           boostDose |-> Min(((targetConcentration - redoseThreshold) * volume) \div 10,
                                             maxDose * SCALE),
                           redoseInterval |-> redoseInterval,
                           currentTime |-> redoseInterval,
                           schedule |-> <<[time |-> Fin(0), dose |-> initialDose,
                                           reason |-> "Initial dose to reach target"]>>]
                /\ ret' = ret
  /\ UNCHANGED <<clock, forge, states, arrays, saved, cachedAt, activeDomain, activeForges>>

\* currentTime < duration
Before(currentTime, duration) == NumLtInt(currentTime, duration * SCALE)

\* A pass of the loop that works the interval out again, from the target
\* level the maintenance dose restores, where the code adds the interval it
\* computed once.
OptimizeDosingLoopRecomputed ==
  /\ opt.pc = "loop"
  /\ Before(opt.currentTime, opt.args.duration)
  /\ Len(opt.schedule) < MaxSchedule
  /\ opt' = [opt EXCEPT
       !.schedule = Append(@, [time |-> opt.currentTime, dose |-> opt.boostDose,
                               reason |-> "Maintenance dose"]),
       !.currentTime = NumAdd(@, TimeToReach(Fin(opt.args.targetLevel * SCALE),
                                             (opt.args.targetLevel * SCALE * 7) \div 10,
                                             State(opt.forge).rateConstant))]
  /\ UNCHANGED <<clock, forge, states, arrays, saved, ret, cachedAt, activeDomain, activeForges>>

\* One pass of the while loop of optimizeDosing.
OptimizeDosingLoop ==
  /\ opt.pc = "loop"
  /\ Before(opt.currentTime, opt.args.duration)
  /\ Len(opt.schedule) < MaxSchedule
  /\ opt' = [opt EXCEPT
       !.schedule = Append(@, [time |-> opt.currentTime, dose |-> opt.boostDose,
                               reason |-> "Maintenance dose"]),
       !.currentTime = NumAdd(@, opt.redoseInterval)]
  /\ UNCHANGED <<clock, forge, states, arrays, saved, ret, cachedAt, activeDomain, activeForges>>

\* The loop is left and the schedule (an array) returned.
OptimizeDosingReturn ==
  /\ opt.pc = "loop"
  /\ ~Before(opt.currentTime, opt.args.duration)
  /\ opt' = NotRunning
  /\ ret' = Call("optimizeDosing", opt.forge, opt.args, [points |-> opt.schedule])
  /\ UNCHANGED <<clock, forge, states, arrays, saved, cachedAt, activeDomain, activeForges>>

\* The wall clock advances.
Tick ==
  /\ clock < MaxTick * TickMs
  /\ clock' = clock + TickMs
  /\ UNCHANGED <<forge, states, arrays, saved, ret, cachedAt, opt, activeDomain, activeForges>>

\* ForgeCalculator.timeToReach(initial, target, rate) called on its own.
TimeToReachCall(initial, target, rate) ==
  /\ ret' = Call("timeToReach", "", [initial |-> initial, target |-> target, rate |-> rate],
                 TimeToReach(initial, target, rate))
  /\ UNCHANGED <<clock, forge, states, arrays, saved, cachedAt, opt, activeDomain, activeForges>>

\* ForgeCalculator.calculate(initial, rate, time) called on its own.
CalculateCall(initial, rate, time) ==
  /\ ret' = Call("calculate", "", [initial |-> initial, rate |-> rate, time |-> time],
                 Calculate(initial, rate, time))
  /\ UNCHANGED <<clock, forge, states, arrays, saved, cachedAt, opt, activeDomain, activeForges>>

\* ForgeCalculator.generateCurve(initial, rate, duration, steps) called on its
\* own.
GenerateCurveCall(initial, rate, duration, steps) ==
  /\ ret' = Call("generateCurve", "",
                 [initial |-> initial, rate |-> rate, duration |-> duration, steps |-> steps],
                 GenerateCurve(initial, rate, duration, steps))
  /\ UNCHANGED <<clock, forge, states, arrays, saved, cachedAt, opt, activeDomain, activeForges>>

\* ------------------------------------------------------------------- App
\* const caffeineForge = useMemo(() => new CaffeineForge(), []): forge A.
caffeineForge == "A"

\* f.domain on a CaffeineForge: the constructor sets config, CONSTANTS, state
\* and volumeDistribution and no domain, so the property is undefined.
InstanceFields == {"config", "CONSTANTS", "state", "volumeDistribution"}
Property(f, name) == IF name \in InstanceFields THEN name ELSE "undefined"

\* activeForges.find(f => f.domain === domainId) found a forge.
Found(domainId) ==
  \E i \in DOMAIN activeForges : Property(activeForges[i], "domain") = domainId

\* handleDomainSelect(domainId), from the selector or from the dashboard.
HandleDomainSelect(domainId) ==
  /\ activeDomain' = domainId
  /\ IF domainId = "caffeine-forge" /\ ~Found(domainId)
       THEN /\ Len(activeForges) < MaxActive
            /\ activeForges' = Append(activeForges, caffeineForge)
       ELSE activeForges' = activeForges
  /\ UNCHANGED <<clock, forge, states, arrays, saved, ret, cachedAt, opt>>

\* setActiveDomain(null): "Domain Selector" in the navigation, "Back to
\* Selector" above the dashboard.
BackToSelector ==
  /\ activeDomain' = NoDomain
  /\ UNCHANGED <<clock, forge, states, arrays, saved, ret, cachedAt, opt, activeForges>>

\* ------------------------------------------------------------ input sets
Times == {n * TickMs : n \in 0 .. MaxTick}
\* Levels are also asked for four hours into the first day.
QueryTimes == Times \cup {4 * MsPerHour}
Doses == {Fin(0 - 50), Fin(100)}
SourceNames == {"espresso", "invalid_source", "toString"}
Servings == {1, 2}
NoConfig == [key \in {} |-> 0]
UserConfigs == {NoConfig, [bodyWeight |-> 80, metabolismRate |-> "slow"]}
Configs == {[bodyWeight |-> 80], [bodyWeight |-> 0], [metabolismRate |-> "fast"]}
LevelConfigs == {[bodyWeight |-> 80], [metabolismRate |-> "fast"]}
Versions == {"1.0", "2.0"}
\* optimizeDosing calls <<targetLevel, duration, maxDose>>.
DosingCalls == {<<100, 8, 200>>, <<2, 8, 200>>, <<2, 4, 80>>, <<2, 8, 80>>}
\* The trackers optimizeDosing is called on, one of them of body weight 0.
DosingConfigs == UserConfigs \cup {[bodyWeight |-> 0]}

\* Both forges constructed, A from userConfig and B from the defaults.
Constructed(userConfig) ==
  /\ clock = 0
  /\ LET a == Constructor(userConfig, 1)
         b == Constructor(NoConfig, 2)
     IN  /\ states = (1 :> a) @@ (2 :> b)
         /\ forge = [f \in Forges |->
               IF f = "A" THEN [state |-> 1, volumeDistribution |-> VolumeOf(a.bodyWeight)]
               ELSE [state |-> 2, volumeDistribution |-> VolumeOf(b.bodyWeight)]]
  /\ arrays = (1 :> <<>>) @@ (2 :> <<>>)
  /\ saved = NoBlob
  /\ ret = Call("new", "", NoConfig, Fin(0))
  /\ cachedAt = (1 :> NoTime) @@ (2 :> NoTime)
  /\ opt = NotRunning
  /\ activeDomain = NoDomain
  /\ activeForges = <<>>

Init == \E userConfig \in UserConfigs : Constructed(userConfig)

\* One forge: doses logged and levels queried at chosen times.
Next ==
  \/ \E dose \in Doses, time \in Times : AddDose("A", dose, time, "unknown")
  \/ \E time \in QueryTimes : GetCurrentLevel("A", time)
  \/ ClearHistory("A")
  \/ \E config \in LevelConfigs : UpdateConfig("A", config)

Spec == Init /\ [][Next]_vars

\* One forge: doses by amount and by source, and the daily total, as the
\* clock runs.
TotalNext ==
  \/ Tick
  \/ \E time \in Times : AddDose("A", Fin(100), time, "unknown")
  \/ \E source \in SourceNames, servings \in Servings :
       AddBySource("A", source, servings, clock)
  \/ GetTodayTotal("A")
  \/ ClearHistory("A")

TotalSpec == Constructed(NoConfig) /\ [][TotalNext]_vars

\* Two forges configured, exported and imported, one of them logging doses.
ConfigNext ==
  \/ AddDose("A", Fin(100), clock, "unknown")
  \/ \E f \in Forges, config \in Configs : UpdateConfig(f, config)
  \/ \E f \in Forges : ExportState(f)
  \/ \E f \in Forges, version \in Versions :
       ImportState(f, [saved EXCEPT !.version = version])

ConfigSpec == Init /\ [][ConfigNext]_vars

\* Two forges: A's state is exported and imported into B, and both go on
\* logging, reading and reconfiguring.
ShareNext ==
  \/ AddBySource("A", "espresso", 1, clock)
  \/ AddDose("B", Fin(100), clock, "unknown")
  \/ \E f \in Forges : GetCurrentLevel(f, clock)
  \/ GetTodayTotal("B")
  \/ ClearHistory("B")
  \/ UpdateConfig("A", [bodyWeight |-> 80])
  \/ ExportState("A")
  \/ \E version \in Versions : ImportState("B", [saved EXCEPT !.version = version])

ShareSpec == Constructed(NoConfig) /\ [][ShareNext]_vars

\* One forge planning dosing schedules under changing configurations.
DosingNext ==
  \/ opt.pc = "idle" /\ \E config \in Configs : UpdateConfig("A", config)
  \/ \E call \in DosingCalls : OptimizeDosing("A", call[1], call[2], call[3])
  \/ OptimizeDosingLoop
  \/ OptimizeDosingReturn

DosingSpec == (\E userConfig \in DosingConfigs : Constructed(userConfig)) /\ [][DosingNext]_vars

\* The arguments ForgeCalculator is called with: initial values, targets and
\* rates below, at and above zero.
Initials == {Fin(0 - SCALE), Fin(0), Fin(47619), Fin(10 * SCALE), Fin(100 * SCALE), PosInf}
Targets == {0 - SCALE, 0, SCALE, 7 * SCALE, 10 * SCALE}
Rates == {0 - RATE_TYPICAL, 0, RATE_SLOW, RATE_TYPICAL, RATE_FAST}

CurveDoses == {30, 400}
ElapsedTimes == {0 - SCALE, 0, SCALE, 5 * SCALE, 24 * SCALE}
Durations == {0, 24}
StepCounts == {1, 2, 4}

\* The decay engine called on its own, and the curve of a tracker.
CalcNext ==
  \/ \E initial \in Initials, target \in Targets, rate \in Rates :
       TimeToReachCall(initial, target, rate)
  \/ \E initial \in Initials, rate \in Rates, time \in ElapsedTimes :
       CalculateCall(initial, rate, time)
  \/ \E initial \in Initials, rate \in Rates, duration \in Durations, steps \in StepCounts :
       GenerateCurveCall(initial, rate, duration, steps)
  \/ \E dose \in CurveDoses, duration \in Durations, steps \in StepCounts :
       GenerateDecayCurve("A", dose, duration, steps)

CalcSpec == Constructed(NoConfig) /\ [][CalcNext]_vars

\* Reads of one forge at and around the band cut points: 42, 420, 2100 and
\* 6300 mg in 42 L are 1, 10, 50 and 150 mg/L.
BandDoses == {Fin(42), Fin(420), Fin(2100), Fin(6300)}
SleepThresholds == {Null, Fin(0), Fin(SCALE), Fin(10 * SCALE)}

BandNext ==
  \/ \E dose \in BandDoses : AddDose("A", dose, 0, "unknown")
  \/ \E q \in QueryTimes : GetCurrentLevel("A", q)
  \/ \E q \in QueryTimes : GetPhysiologicalState("A", q)
  \/ \E threshold \in SleepThresholds : GetTimeUntilSleep("A", threshold, 0)
  \/ GetTodayTotal("A")
  \/ ClearHistory("A")

BandSpec == Init /\ [][BandNext]_vars

\* The reads of one forge on the doses of the test suite (30, 150, 200 and
\* 400 mg) and on an amount below zero.
ReadDoses == {Fin(0 - 50), Fin(30), Fin(150), Fin(200), Fin(400)}
StartTimes == {Null, Fin(0)}

ReadNext ==
  \/ \E dose \in ReadDoses, time \in Times : AddDose("A", dose, time, "unknown")
  \/ \E q \in QueryTimes : GetPhysiologicalState("A", q)
  \/ \E threshold \in SleepThresholds, fromTime \in Times :
       GetTimeUntilSleep("A", threshold, fromTime)
  \/ \E dose \in CurveDoses : GenerateDecayCurve("A", dose, 24, 1)
  \/ \E startTime \in StartTimes : GenerateTimeline("A", startTime, 24, 24 * 60)
  \/ ClearHistory("A")

ReadSpec == Init /\ [][ReadNext]_vars

\* Doses logged by source name: every name of SOURCES, and one that is not.
SourceSpecNames == DOMAIN SOURCES \cup {"invalid_source"}
\* The times they are logged for: now and four hours on.
SourceTimes == {0, 4 * MsPerHour}

SourceNext ==
  \/ \E source \in SourceSpecNames, servings \in Servings, time \in SourceTimes :
       AddBySource("A", source, servings, time)
  \/ ClearHistory("A")

SourceSpec == Constructed(NoConfig) /\ [][SourceNext]_vars

\* Two trackers logging the same doses, in whatever order each.
OrderTimes == {0, 4 * MsPerHour}

OrderNext ==
  \/ \E f \in Forges, dose \in Doses, time \in OrderTimes : AddDose(f, dose, time, "unknown")
  \/ GetCurrentLevel("A", 4 * MsPerHour)
  \/ GetTodayTotal("A")

OrderSpec == Constructed(NoConfig) /\ [][OrderNext]_vars

\* The App: domains are selected and left while the dashboard's caffeine
\* forge logs doses.
DomainIds == {"caffeine-forge", "dope-forge"}

AppNext ==
  \/ \E domainId \in DomainIds : HandleDomainSelect(domainId)
  \/ BackToSelector
  \/ \E time \in Times : AddDose(caffeineForge, Fin(100), time, "unknown")
  \/ GetCurrentLevel(caffeineForge, clock)
  \/ ClearHistory(caffeineForge)

AppSpec == Constructed(NoConfig) /\ [][AppNext]_vars

\* ------------------------------------------------------------- properties
\* The call whose result is result failed: it threw an error and returned
\* no value.
Failed(result) == "msg" \in DOMAIN result /\ Threw(result)

\* The events of f logged at or before the query time q, and what each of
\* them contributes to the level at q.
Counted(f, q) == {i \in DOMAIN History(f) : History(f)[i].time <= q}
Contribution(f, q, i) ==
  GetBloodLevel(f, History(f)[i].dose, HoursElapsed(q, History(f)[i].time))

\* The contributions of the events S of f at q, added in log order.
RECURSIVE Superposition(_, _, _)
Superposition(f, q, S) ==
  IF S = {} THEN Fin(0)
  ELSE LET last == CHOOSE i \in S : \A j \in S : j <= i
       IN  NumAdd(Superposition(f, q, S \ {last}), Contribution(f, q, last))

\* C1: getCurrentLevel(q) returns the sum of getBloodLevel(dose, q - time)
\* over exactly the logged events with time <= q; an event with time > q
\* contributes nothing. Where getBloodLevel throws for a counted event, so
\* does getCurrentLevel.
C1_Superposition ==
  ret.op = "getCurrentLevel" =>
    LET f == ret.forge
        q == ret.args.currentTime
    IN  IF \E i \in Counted(f, q) : Threw(Contribution(f, q, i))
          THEN Threw(ret.result)
          ELSE ret.result = Superposition(f, q, Counted(f, q))

\* A level returned four hours after a dose that has partly decayed, with
\* another dose logged for a later time.
C1_Witness ==
  /\ ret.op = "getCurrentLevel"
  /\ ret.result.k = "fin"
  /\ \E i \in DOMAIN History("A") :
       /\ History("A")[i].time < ret.args.currentTime
       /\ History("A")[i].dose = Fin(100)
       /\ ret.result.v > 0
       /\ ret.result.v < Concentration(Fin(100), forge["A"].volumeDistribution).v
  /\ \E j \in DOMAIN History("A") : History("A")[j].time > ret.args.currentTime

\* C2: optimizeDosing terminates: whenever its loop has another pass to
\* make, the pass moves currentTime towards duration, the redosing interval
\* being a positive number.
C2_LoopAdvances ==
  opt.pc = "loop" /\ Before(opt.currentTime, opt.args.duration) =>
    NumGtInt(opt.redoseInterval, 0)

\* C3: trackers share no state: a dose logged on one tracker leaves the log
\* of every other tracker unchanged.
C3_NoSharedLog ==
  [][\A f \in Forges :
       ret'.op \in {"addDose", "addBySource"} /\ ret'.forge # f =>
         History(f)' = History(f)]_vars

\* C4: the derived fields agree with the configuration: volumeDistribution
\* is bodyWeight x VD_PER_KG, and rateConstant and halfLife are those of
\* metabolismRate.
C4_DerivedFieldsAgree ==
  \A f \in Forges :
    /\ forge[f].volumeDistribution = VolumeOf(State(f).bodyWeight)
    /\ State(f) = UpdateRateConstant(State(f))

\* C5: state.currentLevel is never stale: once computed for a query time,
\* it is the level the present log and configuration give for that time.
C5_CacheFresh ==
  \A f \in Forges :
    cachedAt[forge[f].state] # NoTime =>
      State(f).currentLevel = CurrentLevel(f, cachedAt[forge[f].state])

\* C6: no event of the log has a negative amount, and addDose with a
\* negative amount fails.
C6_NoNegativeAmount ==
  /\ \A f \in Forges : \A i \in DOMAIN History(f) : ~IsNegative(History(f)[i].dose)
  /\ ret.op = "addDose" /\ IsNegative(ret.args.dose) => Failed(ret.result)

\* The configuration of f and the fields derived from it.
Configuration(f) ==
  <<State(f).bodyWeight, State(f).metabolismRate, State(f).rateConstant,
    State(f).halfLife, forge[f].volumeDistribution>>

\* The log of the state object an exported blob holds.
SavedHistory == arrays[states[saved.state].caffeineHistory]

RECURSIVE WindowTotal(_, _, _, _)
WindowTotal(history, i, today, now) ==
  IF i > Len(history) THEN Fin(0)
  ELSE IF today <= history[i].time /\ history[i].time <= now
    THEN NumAdd(history[i].dose, WindowTotal(history, i + 1, today, now))
  ELSE WindowTotal(history, i + 1, today, now)

\* C8: getTodayTotal().total is the sum of the amounts of exactly the events
\* timed between local midnight of the current day and now.
C8_TodayWindow ==
  ret.op = "getTodayTotal" =>
    ret.result.total =
      WindowTotal(History(ret.forge), 1, Midnight(ret.args.now), ret.args.now)

\* C9: addBySource with a name that is not a key of SOURCES fails, and never
\* logs an event.
C9_UnknownSourceFails ==
  /\ ret.op = "addBySource" /\ ret.args.source \notin DOMAIN SOURCES => Failed(ret.result)
  /\ \A f \in Forges : \A i \in DOMAIN History(f) :
       History(f)[i].source \in DOMAIN SOURCES \cup {"unknown"}

\* C10: importState of a blob whose version is not '1.0' changes nothing:
\* the log, the configuration, rateConstant, volumeDistribution and the
\* cached level are as before the call.
C10_UnrecognizedIsNoOp ==
  [][ret'.op = "importState" /\ ret'.args.version # "1.0" =>
       UNCHANGED <<forge, states, arrays, cachedAt>>]_vars

\* importState of a blob with another tag has returned, the blob holding a
\* log, a body weight and a cached level that are not the importing
\* tracker's.
C10_Witness ==
  /\ ret.op = "importState"
  /\ ret.args.version # "1.0"
  /\ SavedHistory # History(ret.forge)
  /\ states[saved.state].bodyWeight # State(ret.forge).bodyWeight
  /\ states[saved.state].currentLevel # State(ret.forge).currentLevel

\* initial decayed at rate for the hours timeToReach returned is target, to
\* within one per cent; an infinite initial value never gets there.
DecaysTo(initial, rate, hours, target) ==
  IF initial.k = "fin"
    THEN /\ hours.k = "fin"
         /\ LET reached == DecayProduct(initial, rate, hours.v).v
            IN  (reached - target) * 100 <= target /\ (target - reached) * 100 <= target
  ELSE hours = PosInf

\* C12: after importState of the blob A.exportState() returned, the
\* importing tracker has A's bodyWeight and metabolismRate, A's events in
\* A's order, A's rateConstant and volumeDistribution, and so A's level at
\* every query time.
C12_RoundTrip ==
  ret.op = "importState" /\ ret.args.version = "1.0" =>
    \A f, g \in Forges :
      ret.forge = f /\ forge[g].state = saved.state =>
        /\ State(f).bodyWeight = State(g).bodyWeight
        /\ State(f).metabolismRate = State(g).metabolismRate
        /\ History(f) = History(g)
        /\ State(f).rateConstant = State(g).rateConstant
        /\ forge[f].volumeDistribution = forge[g].volumeDistribution
        /\ \A q \in QueryTimes : CurrentLevel(f, q) = CurrentLevel(g, q)

\* C13: clearHistory empties the log and sets the cached level to 0, leaves
\* bodyWeight, metabolismRate, rateConstant and volumeDistribution as they
\* were, and getCurrentLevel(q) then returns 0 for every query time q.
C13_ClearHistory ==
  [][\A f \in Forges :
       ret'.op = "clearHistory" /\ ret'.forge = f =>
         /\ History(f)' = <<>>
         /\ State(f)'.currentLevel = Fin(0)
         /\ Configuration(f)' = Configuration(f)
         /\ \A q \in QueryTimes : CurrentLevel(f, q)' = Fin(0)]_vars

\* clearHistory has returned on a tracker that was constructed at 80 kg and
\* reconfigured to the fast metabolism.
C13_Witness ==
  /\ ret.op = "clearHistory"
  /\ History(ret.forge) = <<>>
  /\ State(ret.forge).bodyWeight = 80
  /\ State(ret.forge).metabolismRate = "fast"

\* The elapsed time of a curve point (hours, scaled) as milliseconds.
ElapsedMs(time) == time * (MsPerHour \div SCALE)

\* C18: for a single dose d logged at time t, each point of
\* generateDecayCurve(d, ...) at elapsed time e has the category that
\* getPhysiologicalState(t + e) gives.
C18_CurveCategories ==
  \A f \in Forges :
    ret.op = "generateDecayCurve" /\ ret.forge = f /\ Len(History(f)) = 1
      /\ History(f)[1].dose = Fin(ret.args.dose) =>
        \A i \in DOMAIN ret.result.points :
          ret.result.points[i].state =
            PhysiologicalState(f, History(f)[1].time
                                    + ElapsedMs(ret.result.points[i].time)).state

\* C19: getCurrentLevel(t) called again with nothing changed in between
\* returns what it returned (in the state the call leaves, the level computed
\* for t is the result), and the call leaves the log and the configuration as
\* they were.
C19_ReadIdempotent ==
  /\ [](\A f \in Forges :
          ret.op = "getCurrentLevel" /\ ret.forge = f =>
            CurrentLevel(f, ret.args.currentTime) = ret.result)
  /\ [][\A f \in Forges :
          ret'.op = "getCurrentLevel" /\ ret'.forge = f =>
            /\ History(f)' = History(f)
            /\ Configuration(f)' = Configuration(f)]_vars

\* getCurrentLevel has returned a positive level and cached it.
C19_Witness ==
  /\ ret.op = "getCurrentLevel"
  /\ ret.result.k = "fin"
  /\ ret.result.v > 0
  /\ State(ret.forge).currentLevel = ret.result
  /\ Len(History(ret.forge)) = MaxLog

UniformTimes(points, duration, steps) ==
  /\ Len(points) = steps + 1
  /\ \A i \in DOMAIN points : points[i].time * steps = (i - 1) * duration * SCALE
  /\ points[1].time = 0
  /\ points[Len(points)].time = duration * SCALE

\* C22: generateCurve(initial, rate, duration, steps) returns steps + 1 points
\* at the uniform times i * duration / steps, the first value is initial, and
\* for rate > 0 the values never increase along the sequence;
\* generateDecayCurve(dose, duration, steps) returns steps + 1 points that
\* start at percent 100 and whose levels never increase.
C22_CurveShape ==
  /\ ret.op = "generateCurve" /\ ~IsNegative(ret.args.initial) /\ ret.args.rate >= 0 =>
       /\ ~Failed(ret.result)
       /\ UniformTimes(ret.result.points, ret.args.duration, ret.args.steps)
       /\ ret.result.points[1].value = ret.args.initial
       /\ ret.args.rate > 0 =>
            \A i, j \in DOMAIN ret.result.points :
              i <= j => NumLe(ret.result.points[j].value, ret.result.points[i].value)
  /\ ret.op = "generateDecayCurve" =>
       /\ Len(ret.result.points) = ret.args.steps + 1
       /\ ret.result.points[1].percent = Fin(100 * SCALE)
       /\ \A i, j \in DOMAIN ret.result.points :
            i <= j => NumLe(ret.result.points[j].level, ret.result.points[i].level)

\* C29: for rate = 0 and initial > 0 generateCurve returns steps + 1 points
\* whose values all equal initial, rather than failing.
C29_ZeroRateCurve ==
  ret.op = "generateCurve" /\ ret.args.rate = 0
    /\ ret.args.initial.k = "fin" /\ ret.args.initial.v > 0 =>
    /\ ~Failed(ret.result)
    /\ Len(ret.result.points) = ret.args.steps + 1
    /\ \A i \in DOMAIN ret.result.points : ret.result.points[i].value = ret.args.initial

\* The entries of the schedule a call of optimizeDosing on f returned start
\* at time 0 with min(targetLevel x volumeDistribution, maxDose), and every
\* dose is > 0 and <= maxDose.
ScheduleDoses(f) ==
  LET schedule == ret.result.points
      maxDose == ret.args.maxDose * SCALE
      reaching == (ret.args.targetLevel * SCALE * forge[f].volumeDistribution) \div 10
  IN  /\ schedule[1].time = Fin(0)
      /\ schedule[1].dose = IF reaching <= maxDose THEN reaching ELSE maxDose
      /\ \A i \in DOMAIN schedule : schedule[i].dose > 0 /\ schedule[i].dose <= maxDose

\* C23 (as stated): every schedule optimizeDosing returns for positive
\* arguments starts at time 0 with the dose min(targetLevel x
\* volumeDistribution, maxDose), and every dose is > 0 and <= maxDose.
C23_ScheduleDoses ==
  \A f \in Forges :
    ret.op = "optimizeDosing" /\ ret.forge = f => ScheduleDoses(f)

\* C23 (amended): the same on a tracker whose volumeDistribution is
\* positive; on a tracker of body weight 0 the first dose is
\* min(targetLevel x 0, maxDose) = 0.
C23_ScheduleDosesPositiveVolume ==
  \A f \in Forges :
    ret.op = "optimizeDosing" /\ ret.forge = f /\ forge[f].volumeDistribution > 0 =>
      ScheduleDoses(f)

\* A schedule with a maintenance entry was returned whose first dose is the
\* cap maxDose.
C23_Witness ==
  /\ ret.op = "optimizeDosing"
  /\ forge[ret.forge].volumeDistribution > 0
  /\ Len(ret.result.points) >= 2
  /\ ret.result.points[1].dose = ret.args.maxDose * SCALE

\* timeToReach(initialDose / volumeDistribution, 0.7 x targetLevel,
\* rateConstant) for the first dose of the schedule returned on f.
IntervalOf(f) ==
  TimeToReach(DoseConcentration(ret.result.points[1].dose, forge[f].volumeDistribution),
              (ret.args.targetLevel * SCALE * 7) \div 10,
              State(f).rateConstant)

\* C24: in a schedule optimizeDosing returned, the k-th maintenance entry is
\* at k x interval for the one interval timeToReach(initialDose /
\* volumeDistribution, 0.7 x targetLevel, rateConstant), the entry times
\* increase strictly, every entry time is < duration, and no multiple of the
\* interval below duration is left out.
C24_FixedInterval ==
  \A f \in Forges :
    ret.op = "optimizeDosing" /\ ret.forge = f =>
      LET schedule == ret.result.points
          duration == ret.args.duration * SCALE
      IN  /\ \A k \in 1 .. Len(schedule) - 1 :
               /\ IntervalOf(f).k = "fin"
               /\ schedule[k + 1].time = Fin(k * IntervalOf(f).v)
               /\ schedule[k + 1].reason = "Maintenance dose"
          /\ \A i, j \in DOMAIN schedule :
               i < j => schedule[i].time.k = "fin" /\ schedule[j].time.k = "fin"
                          /\ schedule[i].time.v < schedule[j].time.v
          /\ \A i \in DOMAIN schedule : NumLtInt(schedule[i].time, duration)
          /\ IntervalOf(f).k = "fin" /\ IntervalOf(f).v > 0 =>
               Len(schedule) * IntervalOf(f).v >= duration

\* A schedule with three maintenance entries was returned.
C24_Witness ==
  /\ ret.op = "optimizeDosing"
  /\ Len(ret.result.points) = 4
  /\ ret.result.points[4].reason = "Maintenance dose"

\* C25: addBySource(s, n, t) with a name s of SOURCES appends exactly one
\* event, of amount SOURCES[s] x n, source s and time t, and returns it; two
\* servings of espresso give 128.
C25_SourceDose ==
  [][\A f \in Forges :
       ret'.op = "addBySource" /\ ret'.forge = f /\ ret'.args.source \in DOMAIN SOURCES =>
         /\ History(f)' = Append(History(f), ret'.result)
         /\ ret'.result.dose = Fin(SOURCES[ret'.args.source] * ret'.args.servings)
         /\ ret'.result.source = ret'.args.source
         /\ ret'.result.time = ToDate(ret'.args.time)
         /\ ret'.args.source = "espresso" /\ ret'.args.servings = 2 =>
              ret'.result.dose = Fin(128)]_vars

\* Two servings of espresso were logged after another event.
C25_Witness ==
  /\ ret.op = "addBySource"
  /\ ret.args.source = "espresso"
  /\ ret.args.servings = 2
  /\ Len(History("A")) = 2
  /\ History("A")[2] = ret.result
  /\ ret.result.dose = Fin(128)

\* C26: a tracker that logged two doses in one order and a tracker that
\* logged them in the other order return the same getCurrentLevel(q) for
\* every query time q, and the same getTodayTotal().total.
C26_OrderIndependent ==
  Len(History("A")) = 2 /\ History("B") = <<History("A")[2], History("A")[1]>> =>
    /\ \A q \in QueryTimes : CurrentLevel("A", q) = CurrentLevel("B", q)
    /\ TodayTotal("A").total = TodayTotal("B").total
    /\ ret.op = "getCurrentLevel" => ret.result = CurrentLevel("B", ret.args.currentTime)
    /\ ret.op = "getTodayTotal" => ret.result.total = TodayTotal("B").total

\* getCurrentLevel returned a positive level on A while B holds A's two
\* different events in the other order.
C26_Witness ==
  /\ Len(History("A")) = 2
  /\ History("A")[1] # History("A")[2]
  /\ History("B") = <<History("A")[2], History("A")[1]>>
  /\ ret.op = "getCurrentLevel"
  /\ NumGtInt(ret.result, 0)

\* No event of f has its time in (q1, q2].
NoDoseBetween(f, q1, q2) ==
  \A i \in DOMAIN History(f) : ~(q1 < History(f)[i].time /\ History(f)[i].time <= q2)

\* C27: between doses the level only decays: for the level getCurrentLevel
\* returned at q and every other query time p with no event between the two,
\* the later of the two levels is <= the earlier one (and the later call
\* throws exactly when the earlier one does).
C27_DecaysBetweenDoses ==
  \A f \in Forges : \A p \in QueryTimes :
    ret.op = "getCurrentLevel" /\ ret.forge = f =>
      LET q == ret.args.currentTime
      IN  /\ q <= p /\ NoDoseBetween(f, q, p) =>
               IF Failed(ret.result) THEN Threw(CurrentLevel(f, p))
               ELSE NumLe(CurrentLevel(f, p), ret.result)
          /\ p <= q /\ NoDoseBetween(f, p, q) =>
               IF Failed(ret.result) THEN Threw(CurrentLevel(f, p))
               ELSE NumLe(ret.result, CurrentLevel(f, p))

\* A level returned at four hours is strictly below the level at the dose
\* time, with no event in between.
C27_Witness ==
  /\ ret.op = "getCurrentLevel"
  /\ ret.args.currentTime = 4 * MsPerHour
  /\ NoDoseBetween(ret.forge, 0, 4 * MsPerHour)
  /\ NumGtInt(ret.result, 0)
  /\ ret.result # CurrentLevel(ret.forge, 0)
  /\ NumLe(ret.result, CurrentLevel(ret.forge, 0))

\* C28: getTimeUntilSleep decides with the threshold the caller supplied,
\* 0 included, and with the default THRESHOLD_SLEEP only when the argument is
\* left out: canSleepNow is true exactly when the level is <= that threshold.
C28_SuppliedThreshold ==
  ret.op = "getTimeUntilSleep" /\ ~Failed(ret.result) =>
    LET supplied == ret.args.sleepThreshold
        threshold == IF supplied = Null THEN Fin(THRESHOLD_SLEEP * SCALE) ELSE supplied
    IN  ret.result.canSleepNow <=> NumLe(ret.result.currentLevel, threshold)

\* C30: whatever domains are selected and left, activeForges holds the
\* caffeine forge at most once.
C30_ForgeListedOnce ==
  Cardinality({i \in DOMAIN activeForges : activeForges[i] = caffeineForge}) <= 1

C15_SleepBranches ==
  \A f \in Forges :
    ret.op = "getTimeUntilSleep" /\ ret.forge = f /\ ~Failed(ret.result) =>
      LET threshold == IF ret.args.sleepThreshold = Null THEN Fin(THRESHOLD_SLEEP * SCALE)
                       ELSE ret.args.sleepThreshold
          fromTime == ret.args.fromTime
          level == CurrentLevel(f, fromTime)
          hours == TimeToReach(level, threshold.v, State(f).rateConstant)
      IN  /\ ret.result.currentLevel = level
          /\ IF NumLe(level, threshold)
               THEN /\ ret.result.hours = Fin(0)
                    /\ ret.result.canSleepNow
                    /\ ret.result.sleepTime = Fin(fromTime)
               ELSE /\ ~ret.result.canSleepNow
                    /\ ret.result.hours = hours
                    /\ NumGtInt(ret.result.hours, 0)
                    /\ ret.result.sleepTime = DatePlusHours(fromTime, hours)

\* The log of f is the single dose of d mg taken at time t, on the default
\* 70 kg tracker of typical metabolism.
LoneDose(f, d, t) ==
  /\ State(f).bodyWeight = 70
  /\ State(f).metabolismRate = "typical"
  /\ Len(History(f)) = 1
  /\ History(f)[1].dose = Fin(d)
  /\ History(f)[1].time = ToDate(t)

\* C16: on a default tracker queried at the dose time, a lone 400 mg dose is
\* "jittery", a lone 150 mg dose "alert", a lone 30 mg dose "mild", and with a
\* lone 200 mg dose getTimeUntilSleep(10) gives canSleepNow false and
\* hours > 0.
C16_TestOutcomes ==
  \A f \in Forges :
    /\ ret.op = "getPhysiologicalState" /\ ret.forge = f =>
         /\ LoneDose(f, 400, ret.args.time) => ret.result.state = "jittery"
         /\ LoneDose(f, 150, ret.args.time) => ret.result.state = "alert"
         /\ LoneDose(f, 30, ret.args.time) => ret.result.state = "mild"
    /\ ret.op = "getTimeUntilSleep" /\ ret.forge = f
         /\ ret.args.sleepThreshold = Fin(10 * SCALE)
         /\ LoneDose(f, 200, ret.args.fromTime) =>
           ~ret.result.canSleepNow /\ NumGtInt(ret.result.hours, 0)

\* C11: an operation that raises an error leaves the event log, the
\* configuration with its derived fields, and the cached currentLevel as they
\* were before the call.
C11_NothingPartlyApplied ==
  [][\A f \in Forges :
       ret'.forge = f /\ Failed(ret'.result) =>
         /\ History(f)' = History(f)
         /\ Configuration(f)' = Configuration(f)
         /\ State(f)'.currentLevel = State(f).currentLevel]_vars

\* The bands in ascending order of their lower bounds (mg/L); below the
\* lowest bound the category is "baseline".
Bands ==
  <<[category |-> "minimal", lowerBound |-> THRESHOLD_BASELINE],
    [category |-> "mild", lowerBound |-> THRESHOLD_SLEEP],
    [category |-> "alert", lowerBound |-> THRESHOLD_ALERT],
    [category |-> "jittery", lowerBound |-> THRESHOLD_JITTERY]>>
BandsMet(level) == {i \in DOMAIN Bands : NumGe(level, Fin(Bands[i].lowerBound * SCALE))}
HighestBand(level) ==
  IF BandsMet(level) = {} THEN 0
  ELSE CHOOSE i \in BandsMet(level) : \A j \in BandsMet(level) : j <= i
BandOf(category) ==
  IF category = "baseline" THEN 0
  ELSE CHOOSE i \in DOMAIN Bands : Bands[i].category = category
CutLevels ==
  {Fin(b.lowerBound * SCALE + d) : b \in {Bands[i] : i \in DOMAIN Bands}, d \in {0 - 1, 0, 1}}
    \cup {Fin(0), PosInf}

\* C17: getPhysiologicalState assigns each level exactly one category, the
\* highest band whose lower bound the level meets or exceeds ("baseline" below
\* the lowest bound), a level exactly on a cut point falls in the higher band,
\* and the category never moves to a lower band as the level increases.
C17_HighestBandMet ==
  ret.op = "getPhysiologicalState" /\ ~Failed(ret.result) =>
    /\ ret.result.state \in {"baseline"} \cup {Bands[i].category : i \in DOMAIN Bands}
    /\ BandOf(ret.result.state) = HighestBand(ret.result.level)
    /\ \A cut \in CutLevels :
         /\ BandOf(PhysiologicalBand(cut).state) = HighestBand(cut)
         /\ NumLe(cut, ret.result.level) =>
              BandOf(PhysiologicalBand(cut).state) <= BandOf(ret.result.state)
         /\ NumLe(ret.result.level, cut) =>
              BandOf(ret.result.state) <= BandOf(PhysiologicalBand(cut).state)

\* A level exactly on the "mild" cut point (420 mg in 42 L) was classified.
C17_Witness ==
  /\ ret.op = "getPhysiologicalState"
  /\ ~Failed(ret.result)
  /\ ret.result.level = Fin(THRESHOLD_SLEEP * SCALE)
  /\ ret.result.state = "mild"
====
